---- MODULE Spec2Model ----
(***************************************************************************)
(* Trie cursors over the AccountsTrie and StoragesTrie tables              *)
(* (crates/trie/trie-db/src/trie_cursor/database_cursors.rs), the state    *)
(* root entry points (crates/trie/trie-db/src/trie.rs) and the             *)
(* `reth recover storage-tries` command                                    *)
(* (bin/reth/src/commands/recover/storage_tries.rs).                       *)
(*                                                                         *)
(* A table is the sequence of its entries in the order the storage engine  *)
(* keeps them; an engine cursor is an index into that sequence (0: not     *)
(* positioned).  The engine (reth_db cursors over MDBX) and the root       *)
(* calculator (reth_trie StateRoot) are not part of the files modelled     *)
(* here; their operators are written from the specification.               *)
(***************************************************************************)
EXTENDS Integers, Sequences, FiniteSets, TLC

\* ------------------------------------------------------------------ bounds
\* Longest nibble path of a key.
MaxLen == 2
\* Most entries a table holds.
MaxEntries == 3
\* Most account leaves of the hashed state a root is computed over.
MaxLeaves == 4
\* Largest threshold a calculator is configured with, besides from_tx's own.
MaxThreshold == 3

\* The nibble values used in keys (a real nibble is 0..15).
Nibble == {0, 1}
\* Hashed account addresses (B256), in their order.
HashedAddress == {1, 2}
\* Compact branch nodes, in the order of their encodings.
BranchNode == {1, 2}

RECURSIVE PathsOfLen(_)
PathsOfLen(n) ==
    IF n = 0 THEN {<<>>}
    ELSE {Append(p, x) : p \in PathsOfLen(n - 1), x \in Nibble}

\* Every nibble path of the model (keys of AccountsTrie).
Nibbles == UNION {PathsOfLen(n) : n \in 0..MaxLen}

\* The sub-keys of StoragesTrie: kept one nibble shorter, as every sub-key
\* occurs under every hashed address and with every node.
SubKeys == {p \in Nibbles : Len(p) < MaxLen}

\* ------------------------------------------------------- key ordering
MinOf(S) == CHOOSE x \in S : \A y \in S : x <= y

\* Nibble-by-nibble lexicographic order; a proper prefix sorts first.
LexLess(a, b) ==
    \E i \in 1..(Len(b)) :
        /\ \A j \in 1..(i - 1) : j <= Len(a) /\ a[j] = b[j]
        /\ \/ i = Len(a) + 1
           \/ i <= Len(a) /\ a[i] < b[i]

\* Order of StoragesTrie entries: outer key, then sub-key, then node.
DupLess(e, f) ==
    \/ e.addr < f.addr
    \/ e.addr = f.addr /\ LexLess(e.nibbles, f.nibbles)
    \/ e.addr = f.addr /\ e.nibbles = f.nibbles /\ e.node < f.node

\* ------------------------------------------------------- sequences
InsertAt(t, i, e) == SubSeq(t, 1, i - 1) \o <<e>> \o SubSeq(t, i, Len(t))

RemoveAt(t, i) == SubSeq(t, 1, i - 1) \o SubSeq(t, i + 1, Len(t))

\* A mutant of cursor_read: reading an entry takes it out of the table.
cursor_take(t, pos) == IF pos = 0 THEN t ELSE RemoveAt(t, pos)

\* DbTx::cursor_read / cursor_dup_read: a cursor that reads (DbCursorRO,
\* DbDupCursorRO); the table after one of its operations left it at pos.
cursor_read(t, pos) == t

\* ------------------------------------------------------------------ state
VARIABLES
    accountsTrie,   \* AccountsTrie as the transaction sees it: [key, node]
    storagesTrie,   \* StoragesTrie as the transaction sees it: [addr, nibbles, node]
    accountCursor,  \* engine cursor of DatabaseAccountTrieCursor
    storageCursor,  \* engine cursor held by a storage trie cursor wrapper
    last,           \* the cursor call that just returned: [op, addr, key, node, res]
    pre,            \* the table that call ran on, as it was before the call
    held,           \* the seek whose result the caller holds while it calls current
                    \* (Idle: none; no other call is made meanwhile)
    fault           \* the storage-engine error raised in the call, if any

\* The recover storage-tries command (Command::execute) and its database.
VARIABLES
    committed,            \* StoragesTrie as committed: what other transactions read
    hashedAccounts,       \* the hashed addresses with an entry in HashedAccounts
    pc,                   \* where execute stands
    best_header,          \* the sealed header of the best block: [state_root]
    storage_trie_cursor,  \* the sweep's cursor: [pos, deleted]
    entry,                \* the loop's entry: None or <<hashed_address, nibbles>>
    deleted_tries,        \* the counter of deleted tries
    state_root,           \* the root computed after the sweep
    outcome,              \* what execute returned
    commits,              \* how often the transaction was committed
    readerSaw             \* what a reader in another transaction read, and when

\* The incremental state root over a range of blocks.
VARIABLES
    changeSets,     \* the change logs, one per block: [accounts, storages]
    checkpoint,     \* the block the trie tables stand at
    incremental     \* what the last incremental root computation returned

\* A state root computation over the hashed state.
VARIABLES
    hashedLeaves,   \* the hashed account keys, in key order
    calculator,     \* the StateRoot in use: [threshold, prefix_sets, previous_state]
    progress,       \* what the last root_with_progress returned
    invocations,    \* how often root_with_progress ran
    plain,          \* what root() of an unconfigured from_tx calculator returned
    with_updates    \* what root_with_updates returned

cursorVars == <<accountsTrie, storagesTrie, accountCursor, storageCursor,
                last, pre, held, fault>>

recoverVars == <<committed, hashedAccounts, pc, best_header,
                 storage_trie_cursor, entry, deleted_tries, state_root,
                 outcome, commits, readerSaw>>

rootVars == <<hashedLeaves, calculator, progress, invocations, plain,
              with_updates>>

incrVars == <<changeSets, checkpoint, incremental>>

vars == <<cursorVars, recoverVars, rootVars, incrVars>>

None == <<>>
Some(k, v) == <<k, v>>

Call(op, addr, key, node, res) ==
    [op |-> op, addr |-> addr, key |-> key, node |-> node, res |-> res]

\* ------------------------------------------ engine cursor on AccountsTrie
\* DbCursorRO::seek: the first entry whose key is >= key.
CursorSeek(t, key) ==
    LET S == {i \in 1..Len(t) : ~LexLess(t[i].key, key)}
    IN IF S = {} THEN 0 ELSE MinOf(S)

\* DbCursorRO::seek_exact: the entry whose key is key.
CursorSeekExact(t, key) ==
    LET S == {i \in 1..Len(t) : t[i].key = key}
    IN IF S = {} THEN 0 ELSE MinOf(S)

\* DbCursorRW::upsert on a table without duplicates: replace the value under
\* an existing key, else insert the entry at its place in key order.
CursorUpsert(t, key, node) ==
    LET i == CursorSeekExact(t, key)
        p == Cardinality({j \in 1..Len(t) : LexLess(t[j].key, key)}) + 1
    IN IF i # 0 THEN [t EXCEPT ![i].node = node]
       ELSE InsertAt(t, p, [key |-> key, node |-> node])

\* Where the cursor stands after upsert: on the entry written.
CursorUpsertPos(t, key) == CursorSeekExact(t, key)

\* Cursor::walk_range(..): every entry from the first one on.
WalkRange(t) == [i \in 1..Len(t) |-> t[i].key]

\* --------------------------------------------- DatabaseAccountTrieCursor
Ok == <<"Ok">>
Err == <<"Err">>
Panic == <<"Panic">>

\* A mutant of Account_seek_exact: the range seek in place of the exact one.
Account_seek_exact_range(t, key) ==
    LET i == CursorSeek(t, key)
    IN [pos |-> i, res |-> IF i = 0 THEN None ELSE Some(t[i].key, t[i].node)]

\* seek_exact: self.0.seek_exact(StoredNibbles(key)), mapped to (key, node).
Account_seek_exact(t, key) ==
    LET i == CursorSeekExact(t, key)
    IN [pos |-> i, res |-> IF i = 0 THEN None ELSE Some(t[i].key, t[i].node)]

\* A mutant of Account_seek: the exact seek in place of the range seek.
Account_seek_as_exact(t, key) ==
    LET i == CursorSeekExact(t, key)
    IN [pos |-> i, res |-> IF i = 0 THEN None ELSE Some(t[i].key, t[i].node)]

\* seek: self.0.seek(StoredNibbles(key)), mapped to (key, node).
Account_seek(t, key) ==
    LET i == CursorSeek(t, key)
    IN [pos |-> i, res |-> IF i = 0 THEN None ELSE Some(t[i].key, t[i].node)]

\* current: self.0.current(), mapped to TrieKey::AccountNode(k).
Account_current(t, pos) ==
    IF pos = 0 THEN None ELSE <<"AccountNode", t[pos].key>>

\* A mutant of Account_upsert: the entry is appended, as DbCursorRW::append does.
Account_upsert_append(t, key, node) ==
    LET i == CursorSeekExact(t, key)
    IN IF i # 0 THEN [t EXCEPT ![i].node = node]
       ELSE Append(t, [key |-> key, node |-> node])

\* upsert: self.0.upsert(key, value).
Account_upsert(t, key, node) == CursorUpsert(t, key, node)

\* A mutant of Account_delete_current_duplicates: forwards to delete_current.
Account_delete_current_duplicates_fwd(t, pos) ==
    IF pos = 0 THEN [table |-> t, res |-> Err]
    ELSE [table |-> RemoveAt(t, pos), res |-> Ok]

\* delete_current_duplicates: unimplemented!(..), a panic before any engine call.
Account_delete_current_duplicates(t, pos) == [table |-> t, res |-> Panic]

\* Where an engine seek leaves the cursor: on the entry found; after a miss
\* either on no entry or on the entry that follows the place sought.
AfterSeek(t, i, next) == IF i = 0 THEN {0, next} ELSE {i}

\* Where delete_current leaves the cursor in table t (the entry at i is gone):
\* on no entry, or on the entry that followed the deleted one.
AfterDelete(t, i) == IF i <= Len(t) THEN {0, i} ELSE {0}

Idle == Call("idle", 0, <<>>, 0, None)

AccountSeekExact ==
    \E key \in Nibbles :
        LET r == Account_seek_exact(accountsTrie, key) IN
        /\ last = Idle
        /\ accountCursor' \in AfterSeek(accountsTrie, r.pos,
                                         CursorSeek(accountsTrie, key))
        /\ last' = Call("account.seek_exact", 0, key, 0, r.res)
        /\ pre' = accountsTrie
        /\ accountsTrie' = cursor_read(accountsTrie, accountCursor')
        /\ UNCHANGED <<storagesTrie, storageCursor>>
        /\ held = Idle
        /\ UNCHANGED <<held, fault>>
        /\ UNCHANGED <<recoverVars, rootVars, incrVars>>

AccountSeek ==
    \E key \in Nibbles :
        LET r == Account_seek(accountsTrie, key) IN
        /\ last = Idle
        /\ accountCursor' \in AfterSeek(accountsTrie, r.pos, 0)
        /\ last' = Call("account.seek", 0, key, 0, r.res)
        /\ pre' = accountsTrie
        /\ accountsTrie' = cursor_read(accountsTrie, accountCursor')
        /\ UNCHANGED <<storagesTrie, storageCursor>>
        /\ held = Idle
        /\ UNCHANGED <<held, fault>>
        /\ UNCHANGED <<recoverVars, rootVars, incrVars>>

AccountCurrent ==
    /\ last = Idle
    /\ last' = Call("account.current", 0, <<>>, 0,
                    Account_current(accountsTrie, accountCursor))
    /\ pre' = accountsTrie
    /\ accountsTrie' = cursor_read(accountsTrie, accountCursor)
    /\ UNCHANGED <<storagesTrie, accountCursor, storageCursor>>
    /\ UNCHANGED <<held, fault>>
    /\ UNCHANGED <<recoverVars, rootVars, incrVars>>

\* delete_current: self.0.delete_current(); an error when nothing is current.
AccountDeleteCurrent ==
    /\ last = Idle
    /\ pre' = accountsTrie
    /\ IF accountCursor = 0
       THEN /\ last' = Call("account.delete_current", 0, <<>>, 0, Err)
            /\ UNCHANGED <<accountsTrie, accountCursor>>
       ELSE /\ accountsTrie' = RemoveAt(accountsTrie, accountCursor)
            /\ accountCursor' \in AfterDelete(accountsTrie', accountCursor)
            /\ last' = Call("account.delete_current", 0, <<>>, 0, Ok)
    /\ UNCHANGED <<storagesTrie, storageCursor>>
    /\ held = Idle
    /\ UNCHANGED <<held, fault>>
    /\ UNCHANGED <<recoverVars, rootVars, incrVars>>

AccountDeleteCurrentDuplicates ==
    LET r == Account_delete_current_duplicates(accountsTrie, accountCursor) IN
    /\ last = Idle
    /\ accountsTrie' = r.table
    /\ accountCursor' = IF r.res = Panic THEN accountCursor ELSE 0
    /\ last' = Call("account.delete_current_duplicates", 0, <<>>, 0, r.res)
    /\ pre' = accountsTrie
    /\ UNCHANGED <<storagesTrie, storageCursor>>
    /\ held = Idle
    /\ UNCHANGED <<held, fault>>
    /\ UNCHANGED <<recoverVars, rootVars, incrVars>>

AccountUpsert ==
    \E key \in Nibbles, node \in BranchNode :
        LET t == Account_upsert(accountsTrie, key, node) IN
        /\ last = Idle
        /\ Len(t) <= MaxEntries
        /\ accountsTrie' = t
        /\ accountCursor' = CursorUpsertPos(t, key)
        /\ last' = Call("account.upsert", 0, key, node, Ok)
        /\ pre' = accountsTrie
        /\ UNCHANGED <<storagesTrie, storageCursor>>
        /\ held = Idle
        /\ UNCHANGED <<held, fault>>
        /\ UNCHANGED <<recoverVars, rootVars, incrVars>>

\* ------------------------------------------ engine cursor on StoragesTrie
\* DbDupCursorRO::seek_by_key_subkey: within the duplicates of key, the first
\* entry whose sub-key is >= subkey; nothing when key has no such duplicate.
DupSeekByKeySubkey(t, key, subkey) ==
    LET S == {i \in 1..Len(t) :
                 t[i].addr = key /\ ~LexLess(t[i].nibbles, subkey)}
    IN IF S = {} THEN 0 ELSE MinOf(S)

\* DbCursorRO::seek_exact on the dup table: the first duplicate of key.
DupSeekExact(t, key) ==
    LET S == {i \in 1..Len(t) : t[i].addr = key}
    IN IF S = {} THEN 0 ELSE MinOf(S)

\* The first entry at or after the place of (key, subkey) in table order.
DupLowerBound(t, key, subkey) ==
    LET S == {i \in 1..Len(t) :
                 \/ t[i].addr > key
                 \/ t[i].addr = key /\ ~LexLess(t[i].nibbles, subkey)}
    IN IF S = {} THEN 0 ELSE MinOf(S)

\* DbCursorRW::upsert on the dup table: the value joins the duplicates of key
\* at its place in value order; a value already there is not stored twice.
DupUpsert(t, key, value) ==
    LET e == [addr |-> key, nibbles |-> value.nibbles, node |-> value.node]
        p == Cardinality({j \in 1..Len(t) : DupLess(t[j], e)}) + 1
    IN IF \E j \in 1..Len(t) : t[j] = e THEN t ELSE InsertAt(t, p, e)

\* Where the cursor stands after upsert: on the value written.
DupUpsertPos(t, key, value) ==
    MinOf({j \in 1..Len(t) :
              t[j] = [addr |-> key, nibbles |-> value.nibbles,
                      node |-> value.node]})

\* DbCursorRW::delete_current: the entry under the cursor goes.
DupDeleteCurrent(t, pos) == RemoveAt(t, pos)

\* DbDupCursorRW::delete_current_duplicates: every duplicate of the key under
\* the cursor goes.
DupDeleteCurrentDuplicates(t, pos) ==
    SelectSeq(t, LAMBDA e : e.addr # t[pos].addr)

\* Index of the first entry left after the group at pos is deleted (0: none).
DupAfterGroup(t, pos) ==
    LET before == Cardinality({j \in 1..Len(t) : t[j].addr < t[pos].addr})
        left == Len(DupDeleteCurrentDuplicates(t, pos))
    IN IF before + 1 <= left THEN before + 1 ELSE 0

\* --------------------------------------------- DatabaseStorageTrieCursor
\* A mutant of Storage_seek_exact: an entry whose sub-key differs from the key
\* asked for counts as a miss of the engine, which leaves the cursor anywhere.
Storage_seek_exact_miss(t, hashed_address, key) ==
    LET i == DupSeekByKeySubkey(t, hashed_address, key)
    IN IF i # 0 /\ t[i].nibbles = key
       THEN [pos |-> i, res |-> Some(t[i].nibbles, t[i].node)]
       ELSE [pos |-> 0, res |-> None]

\* A mutant of Storage_seek_exact: the sub-key of the entry found is not
\* compared with the key asked for.
Storage_seek_exact_unfiltered(t, hashed_address, key) ==
    LET i == DupSeekByKeySubkey(t, hashed_address, key)
    IN [pos |-> i,
        res |-> IF i # 0 THEN Some(t[i].nibbles, t[i].node) ELSE None]

\* seek_exact: seek_by_key_subkey(self.hashed_address, key), kept only when
\* the entry's sub-key equals key.
Storage_seek_exact(t, hashed_address, key) ==
    LET i == DupSeekByKeySubkey(t, hashed_address, key)
    IN [pos |-> i,
        res |-> IF i # 0 /\ t[i].nibbles = key
                THEN Some(t[i].nibbles, t[i].node) ELSE None]

\* A mutant of Storage_seek: a seek over the whole table from (address, key),
\* which runs on into the next account's duplicates.
Storage_seek_whole_table(t, hashed_address, key) ==
    LET i == DupLowerBound(t, hashed_address, key)
    IN [pos |-> i,
        res |-> IF i # 0 THEN Some(t[i].nibbles, t[i].node) ELSE None]

\* seek: seek_by_key_subkey(self.hashed_address, key).
Storage_seek(t, hashed_address, key) ==
    LET i == DupSeekByKeySubkey(t, hashed_address, key)
    IN [pos |-> i,
        res |-> IF i # 0 THEN Some(t[i].nibbles, t[i].node) ELSE None]

\* A mutant of Storage_current: the key is built as the account cursor's is.
Storage_current_as_account(t, pos) ==
    IF pos = 0 THEN None ELSE <<"AccountNode", t[pos].nibbles>>

\* current: self.cursor.current(), mapped to TrieKey::StorageNode(k, v.nibbles).
Storage_current(t, pos) ==
    IF pos = 0 THEN None ELSE <<"StorageNode", t[pos].addr, t[pos].nibbles>>

\* -------------------------------------------- DatabaseStoragesTrieCursor
\* A mutant of Storages_seek_exact: the engine's seek(key) for seek_exact(key),
\* which goes on to the next account when key has no entry.
Storages_seek_exact_range(t, key) ==
    LET i == DupLowerBound(t, key, <<>>)
    IN [pos |-> i,
        res |-> IF i # 0 THEN Some(t[i].nibbles, t[i].node) ELSE None]

\* seek_exact: self.cursor.seek_exact(key), mapped to (nibbles, node).
Storages_seek_exact(t, key) ==
    LET i == DupSeekExact(t, key)
    IN [pos |-> i,
        res |-> IF i # 0 THEN Some(t[i].nibbles, t[i].node) ELSE None]

\* seek_by_key_subkey: self.cursor.seek_by_key_subkey(key, subkey).
Storages_seek_by_key_subkey(t, key, subkey) ==
    LET i == DupSeekByKeySubkey(t, key, subkey)
    IN [pos |-> i,
        res |-> IF i # 0 THEN Some(t[i].nibbles, t[i].node) ELSE None]

\* current: self.cursor.current(), mapped to TrieKey::StorageNode(k, v.nibbles).
Storages_current(t, pos) ==
    IF pos = 0 THEN None ELSE <<"StorageNode", t[pos].addr, t[pos].nibbles>>

\* A mutant of Storages_delete_current_duplicates: forwards to delete_current.
Storages_delete_current_duplicates_one(t, pos) == DupDeleteCurrent(t, pos)

\* delete_current_duplicates: self.cursor.delete_current_duplicates().
Storages_delete_current_duplicates(t, pos) == DupDeleteCurrentDuplicates(t, pos)

\* delete_current: self.cursor.delete_current().
Storages_delete_current(t, pos) == DupDeleteCurrent(t, pos)

\* upsert: self.cursor.upsert(key, value).
Storages_upsert(t, key, value) == DupUpsert(t, key, value)

\* DatabaseStorageTrieCursor::delete_current: self.cursor.delete_current().
Storage_delete_current(t, pos) == DupDeleteCurrent(t, pos)

\* DatabaseStorageTrieCursor::delete_current_duplicates:
\* self.cursor.delete_current_duplicates().
Storage_delete_current_duplicates(t, pos) == DupDeleteCurrentDuplicates(t, pos)

StorageSeekExact ==
    \E hashed_address \in HashedAddress, key \in SubKeys :
        LET r == Storage_seek_exact(storagesTrie, hashed_address, key) IN
        /\ last = Idle
        /\ storageCursor' \in AfterSeek(storagesTrie, r.pos,
                               DupLowerBound(storagesTrie, hashed_address, key))
        /\ last' = Call("storage.seek_exact", hashed_address, key, 0, r.res)
        /\ pre' = storagesTrie
        /\ storagesTrie' = cursor_read(storagesTrie, storageCursor')
        /\ UNCHANGED <<accountsTrie, accountCursor>>
        /\ held = Idle
        /\ UNCHANGED <<held, fault>>
        /\ UNCHANGED <<recoverVars, rootVars, incrVars>>

StorageSeek ==
    \E hashed_address \in HashedAddress, key \in SubKeys :
        LET r == Storage_seek(storagesTrie, hashed_address, key) IN
        /\ last = Idle
        /\ storageCursor' \in AfterSeek(storagesTrie, r.pos,
                               DupLowerBound(storagesTrie, hashed_address, key))
        /\ last' = Call("storage.seek", hashed_address, key, 0, r.res)
        /\ pre' = storagesTrie
        /\ storagesTrie' = cursor_read(storagesTrie, storageCursor')
        /\ UNCHANGED <<accountsTrie, accountCursor>>
        /\ held = Idle
        /\ UNCHANGED <<held, fault>>
        /\ UNCHANGED <<recoverVars, rootVars, incrVars>>

StorageCurrent ==
    /\ last = Idle
    /\ last' = Call("storage.current", 0, <<>>, 0,
                    Storage_current(storagesTrie, storageCursor))
    /\ pre' = storagesTrie
    /\ storagesTrie' = cursor_read(storagesTrie, storageCursor)
    /\ UNCHANGED <<accountsTrie, accountCursor, storageCursor>>
    /\ UNCHANGED <<held, fault>>
    /\ UNCHANGED <<recoverVars, rootVars, incrVars>>

StoragesSeekExact ==
    \E key \in HashedAddress :
        LET r == Storages_seek_exact(storagesTrie, key) IN
        /\ last = Idle
        /\ storageCursor' \in AfterSeek(storagesTrie, r.pos,
                               DupLowerBound(storagesTrie, key, <<>>))
        /\ last' = Call("storages.seek_exact", key, <<>>, 0, r.res)
        /\ pre' = storagesTrie
        /\ storagesTrie' = cursor_read(storagesTrie, storageCursor')
        /\ UNCHANGED <<accountsTrie, accountCursor>>
        /\ held = Idle
        /\ UNCHANGED <<held, fault>>
        /\ UNCHANGED <<recoverVars, rootVars, incrVars>>

StoragesSeekByKeySubkey ==
    \E key \in HashedAddress, subkey \in SubKeys :
        LET r == Storages_seek_by_key_subkey(storagesTrie, key, subkey) IN
        /\ last = Idle
        /\ storageCursor' \in AfterSeek(storagesTrie, r.pos,
                               DupLowerBound(storagesTrie, key, subkey))
        /\ last' = Call("storages.seek_by_key_subkey", key, subkey, 0, r.res)
        /\ pre' = storagesTrie
        /\ storagesTrie' = cursor_read(storagesTrie, storageCursor')
        /\ UNCHANGED <<accountsTrie, accountCursor>>
        /\ held = Idle
        /\ UNCHANGED <<held, fault>>
        /\ UNCHANGED <<recoverVars, rootVars, incrVars>>

StoragesCurrent ==
    /\ last = Idle
    /\ last' = Call("storages.current", 0, <<>>, 0,
                    Storages_current(storagesTrie, storageCursor))
    /\ pre' = storagesTrie
    /\ storagesTrie' = cursor_read(storagesTrie, storageCursor)
    /\ UNCHANGED <<accountsTrie, accountCursor, storageCursor>>
    /\ UNCHANGED <<held, fault>>
    /\ UNCHANGED <<recoverVars, rootVars, incrVars>>

StorageDeleteCurrent ==
    /\ last = Idle
    /\ pre' = storagesTrie
    /\ IF storageCursor = 0
       THEN /\ last' = Call("storage.delete_current", 0, <<>>, 0, Err)
            /\ UNCHANGED <<storagesTrie, storageCursor>>
       ELSE /\ storagesTrie' = Storage_delete_current(storagesTrie, storageCursor)
            /\ storageCursor' \in AfterDelete(storagesTrie', storageCursor)
            /\ last' = Call("storage.delete_current",
                            storagesTrie[storageCursor].addr,
                            storagesTrie[storageCursor].nibbles,
                            storagesTrie[storageCursor].node, Ok)
    /\ UNCHANGED <<accountsTrie, accountCursor>>
    /\ held = Idle
    /\ UNCHANGED <<held, fault>>
    /\ UNCHANGED <<recoverVars, rootVars, incrVars>>

StorageDeleteCurrentDuplicates ==
    /\ last = Idle
    /\ pre' = storagesTrie
    /\ IF storageCursor = 0
       THEN /\ last' = Call("storage.delete_current_duplicates", 0, <<>>, 0, Err)
            /\ UNCHANGED <<storagesTrie, storageCursor>>
       ELSE /\ storagesTrie' =
                   Storage_delete_current_duplicates(storagesTrie, storageCursor)
            /\ storageCursor' \in {0, DupAfterGroup(storagesTrie, storageCursor)}
            /\ last' = Call("storage.delete_current_duplicates",
                            storagesTrie[storageCursor].addr,
                            storagesTrie[storageCursor].nibbles,
                            storagesTrie[storageCursor].node, Ok)
    /\ UNCHANGED <<accountsTrie, accountCursor>>
    /\ held = Idle
    /\ UNCHANGED <<held, fault>>
    /\ UNCHANGED <<recoverVars, rootVars, incrVars>>

\* upsert is the same call in both storage wrappers (self.cursor.upsert(key,
\* value)); StoragesUpsert below stands for either.
StoragesDeleteCurrent ==
    /\ last = Idle
    /\ pre' = storagesTrie
    /\ IF storageCursor = 0
       THEN /\ last' = Call("storages.delete_current", 0, <<>>, 0, Err)
            /\ UNCHANGED <<storagesTrie, storageCursor>>
       ELSE /\ storagesTrie' = Storages_delete_current(storagesTrie, storageCursor)
            /\ storageCursor' \in AfterDelete(storagesTrie', storageCursor)
            /\ last' = Call("storages.delete_current",
                            storagesTrie[storageCursor].addr,
                            storagesTrie[storageCursor].nibbles,
                            storagesTrie[storageCursor].node, Ok)
    /\ UNCHANGED <<accountsTrie, accountCursor>>
    /\ held = Idle
    /\ UNCHANGED <<held, fault>>
    /\ UNCHANGED <<recoverVars, rootVars, incrVars>>

StoragesDeleteCurrentDuplicates ==
    /\ last = Idle
    /\ pre' = storagesTrie
    /\ IF storageCursor = 0
       THEN /\ last' = Call("storages.delete_current_duplicates", 0, <<>>, 0, Err)
            /\ UNCHANGED <<storagesTrie, storageCursor>>
       ELSE /\ storagesTrie' =
                   Storages_delete_current_duplicates(storagesTrie, storageCursor)
            /\ storageCursor' \in {0, DupAfterGroup(storagesTrie, storageCursor)}
            /\ last' = Call("storages.delete_current_duplicates",
                            storagesTrie[storageCursor].addr,
                            storagesTrie[storageCursor].nibbles,
                            storagesTrie[storageCursor].node, Ok)
    /\ UNCHANGED <<accountsTrie, accountCursor>>
    /\ held = Idle
    /\ UNCHANGED <<held, fault>>
    /\ UNCHANGED <<recoverVars, rootVars, incrVars>>

StoragesUpsert ==
    \E key \in HashedAddress, nibbles \in SubKeys, node \in BranchNode :
        LET value == [nibbles |-> nibbles, node |-> node]
            t == Storages_upsert(storagesTrie, key, value) IN
        /\ last = Idle
        /\ Len(t) <= MaxEntries
        /\ storagesTrie' = t
        /\ storageCursor' = DupUpsertPos(t, key, value)
        /\ last' = Call("storages.upsert", key, nibbles, node, Ok)
        /\ pre' = storagesTrie
        /\ UNCHANGED <<accountsTrie, accountCursor>>
        /\ held = Idle
        /\ UNCHANGED <<held, fault>>
        /\ UNCHANGED <<recoverVars, rootVars, incrVars>>

\* The caller takes the result of the call; the cursor is free for the next.
Return ==
    /\ last # Idle
    /\ last' = Idle
    /\ pre' = <<>>
    /\ UNCHANGED <<accountsTrie, storagesTrie, accountCursor, storageCursor>>
    /\ fault' = None
    /\ held' = Idle
    /\ UNCHANGED <<recoverVars, rootVars, incrVars>>

\* The calls that look an entry up.
SeekOps ==
    {"account.seek_exact", "account.seek", "storage.seek_exact",
     "storage.seek", "storages.seek_exact", "storages.seek_by_key_subkey"}

\* The caller holds on to the result of a seek and goes on to call current.
Keep ==
    /\ last.op \in SeekOps
    /\ held' = last
    /\ last' = Idle
    /\ pre' = <<>>
    /\ UNCHANGED <<accountsTrie, storagesTrie, accountCursor, storageCursor,
                   fault>>
    /\ UNCHANGED <<recoverVars, rootVars, incrVars>>

\* No root computation is under way.
RootIdle ==
    /\ hashedLeaves = <<>>
    /\ calculator = None
    /\ progress = None
    /\ invocations = 0
    /\ plain = None
    /\ with_updates = None

\* No incremental root computation is under way.
IncrIdle ==
    /\ changeSets = <<>>
    /\ checkpoint = 0
    /\ incremental = None

\* The command is not running.
RecoverIdle ==
    /\ committed = <<>>
    /\ hashedAccounts = {}
    /\ pc = "off"
    /\ best_header = None
    /\ storage_trie_cursor = [pos |-> 0, deleted |-> FALSE]
    /\ entry = None
    /\ deleted_tries = 0
    /\ state_root = None
    /\ outcome = None
    /\ commits = 0
    /\ readerSaw = [at |-> "never", table |-> <<>>, partial |-> FALSE]

InitCursors ==
    /\ RecoverIdle
    /\ RootIdle
    /\ IncrIdle
    /\ held = Idle
    /\ fault = None
    /\ accountsTrie = <<>>
    /\ storagesTrie = <<>>
    /\ accountCursor = 0
    /\ storageCursor = 0
    /\ last = Idle
    /\ pre = <<>>

AccountNext ==
    \/ AccountSeekExact
    \/ AccountSeek
    \/ AccountCurrent
    \/ AccountDeleteCurrent
    \/ AccountDeleteCurrentDuplicates
    \/ AccountUpsert
    \/ Return

AccountSpec == InitCursors /\ [][AccountNext]_vars

StorageNext ==
    \/ StorageSeekExact
    \/ StorageSeek
    \/ StorageCurrent
    \/ StorageDeleteCurrent
    \/ StorageDeleteCurrentDuplicates
    \/ StoragesSeekExact
    \/ StoragesSeekByKeySubkey
    \/ StoragesCurrent
    \/ StoragesDeleteCurrent
    \/ StoragesDeleteCurrentDuplicates
    \/ StoragesUpsert
    \/ Return

StorageSpec == InitCursors /\ [][StorageNext]_vars

\* ------------------------------------------------ reading stored tables
\* The AccountsTrie table that holds a node under each key of S.
RECURSIVE AccountTableOf(_)
AccountTableOf(S) ==
    IF S = {} THEN <<>>
    ELSE LET k == CHOOSE x \in S : TRUE
         IN Account_upsert(AccountTableOf(S \ {k}), k, 1)

\* The StoragesTrie table that holds the entries S.
RECURSIVE TableOf(_)
TableOf(S) ==
    IF S = {} THEN <<>>
    ELSE LET e == CHOOSE x \in S : TRUE
         IN DupUpsert(TableOf(S \ {e}), e.addr, e)

AccountTables ==
    {<<>>} \cup {AccountTableOf({j, k}) : j \in Nibbles, k \in Nibbles}

StorageEntries ==
    {[addr |-> a, nibbles |-> k, node |-> 1] :
        a \in HashedAddress, k \in SubKeys}

StorageTables ==
    {<<>>} \cup {TableOf({d, e}) : d \in StorageEntries, e \in StorageEntries}

\* A database whose trie tables were written earlier; the cursors are new.
InitRead ==
    /\ RecoverIdle
    /\ RootIdle
    /\ IncrIdle
    /\ \/ accountsTrie \in AccountTables /\ storagesTrie = <<>>
       \/ accountsTrie = <<>> /\ storagesTrie \in StorageTables
    /\ accountCursor = 0
    /\ storageCursor = 0
    /\ last = Idle
    /\ pre = <<>>
    /\ held = Idle
    /\ fault = None

ReadNext ==
    \/ AccountSeekExact
    \/ AccountSeek
    \/ AccountCurrent
    \/ StorageSeekExact
    \/ StorageSeek
    \/ StorageCurrent
    \/ StoragesSeekExact
    \/ StoragesSeekByKeySubkey
    \/ StoragesCurrent
    \/ Keep
    \/ Return

ReadSpec == InitRead /\ [][ReadNext]_vars

\* ------------------------------------------------ recover storage-tries
\* The hashed addresses and sub-keys of the tables the command is run on; the
\* sweep reads no node, so one node value does.
RecoverAddress == {1, 2, 3}
RecoverSubKeys == PathsOfLen(MaxLen - 1)

RecoverEntries ==
    {[addr |-> a, nibbles |-> k, node |-> 1] :
        a \in RecoverAddress, k \in RecoverSubKeys}

RecoverTables ==
    {TableOf(S) : S \in {T \in SUBSET RecoverEntries : Cardinality(T) <= MaxEntries}}

\* StateRoot::from_tx(tx).root(): the root over the hashed state; a storage
\* trie enters it through its account's leaf, so only the tries of accounts in
\* HashedAccounts do.  The root stands for what it commits to.
StateRootOf(accounts, tries) ==
    [accounts |-> accounts,
     tries |-> SelectSeq(tries, LAMBDA e : e.addr \in accounts)]

\* A root that is the root of no state of the model.
OtherRoot == [accounts |-> {0}, tries |-> <<>>]

\* DbCursorRO::first.
DupFirst(t) == IF Len(t) = 0 THEN 0 ELSE 1

\* DbCursorRO::next: the entry after the current one; after a delete, the
\* entry that took the deleted one's place.
DupNext(t, c) ==
    LET i == IF c.deleted THEN c.pos ELSE c.pos + 1
    IN IF c.pos = 0 THEN DupFirst(t) ELSE IF i <= Len(t) THEN i ELSE 0

EntryAt(t, i) == IF i = 0 THEN None ELSE <<t[i].addr, t[i].nibbles>>

\* The table as the sweep is meant to leave it.
Swept(t, accounts) == SelectSeq(t, LAMBDA e : e.addr \in accounts)

InitRecover ==
    /\ RootIdle
    /\ IncrIdle
    /\ held = Idle
    /\ fault = None
    /\ accountsTrie = <<>>
    /\ accountCursor = 0
    /\ storageCursor = 0
    /\ last = Idle
    /\ storagesTrie \in RecoverTables
    /\ pre = storagesTrie
    /\ committed = storagesTrie
    /\ hashedAccounts \in SUBSET RecoverAddress
    /\ pc = "start"
    /\ best_header = None
    /\ storage_trie_cursor = [pos |-> 0, deleted |-> FALSE]
    /\ entry = None
    /\ deleted_tries = 0
    /\ state_root = None
    /\ outcome = None
    /\ commits = 0
    /\ readerSaw = [at |-> "never", table |-> <<>>, partial |-> FALSE]

\* A mutant of Bail: the error is noted and the command goes on.
GoOn(next) == next

\* The `?` of line 62 on the Err of ok_or(..): execute returns with the error,
\* whatever step came next.
Bail(next) == "done"

\* Lines 59-63: the write provider, the best block number and its sealed
\* header, or the HeaderNotFound error.
RecoverBestHeader ==
    /\ pc = "start"
    /\ \/ \E root \in {StateRootOf(hashedAccounts, storagesTrie), OtherRoot} :
             /\ best_header' = [state_root |-> root]
             /\ pc' = "first"
             /\ UNCHANGED outcome
       \/ /\ outcome' = [kind |-> "HeaderNotFound"]
          /\ pc' = Bail("first")
          /\ UNCHANGED best_header
    /\ UNCHANGED <<cursorVars, committed, hashedAccounts, storage_trie_cursor,
                   entry, deleted_tries, state_root, commits, readerSaw>>
    /\ UNCHANGED <<rootVars, incrVars>>

\* Lines 65-69: the counter, the two cursors, and the first entry.
RecoverFirst ==
    /\ pc = "first"
    /\ deleted_tries' = 0
    /\ storage_trie_cursor' = [pos |-> DupFirst(storagesTrie), deleted |-> FALSE]
    /\ entry' = EntryAt(storagesTrie, DupFirst(storagesTrie))
    /\ pc' = "loop"
    /\ UNCHANGED <<cursorVars, committed, hashedAccounts, best_header,
                   state_root, outcome, commits, readerSaw>>
    /\ UNCHANGED <<rootVars, incrVars>>

\* A mutant of NoHashedAccount: the test is inverted (is_some for is_none).
HasHashedAccount(accounts, address) == address \in accounts

\* Line 73: hashed_account_cursor.seek_exact(hashed_address)?.is_none().
NoHashedAccount(accounts, address) == address \notin accounts

\* A mutant of OutsideTransaction: the write is seen at once, as if each
\* deletion were committed as it is made.
WriteThrough(seen, written) == written

\* Lines 66-68: the cursors belong to the provider's write transaction, so
\* what others see stays as it was when the transaction writes.
OutsideTransaction(seen, written) == seen

\* A mutant of DeleteOrphan: delete_current() for delete_current_duplicates(),
\* the entry under the cursor goes and the rest of its group stays.
DeleteOrphanEntry(t, pos) == DupDeleteCurrent(t, pos)

\* Line 75: storage_trie_cursor.delete_current_duplicates()?.
DeleteOrphan(t, pos) == DupDeleteCurrentDuplicates(t, pos)

\* A mutant of Advance: the cursor is read where it stands (current() for
\* next()).
Stay(t, c) == IF c.deleted THEN DupNext(t, c) ELSE c.pos

\* Line 78: entry = storage_trie_cursor.next()?.
Advance(t, c) == DupNext(t, c)

\* Lines 72-79, one turn of the loop: an entry whose hashed address has no
\* entry in HashedAccounts is counted and its duplicates are deleted; then the
\* cursor moves on.
RecoverSweep ==
    /\ pc = "loop"
    /\ entry # None
    /\ LET orphan == NoHashedAccount(hashedAccounts, entry[1])
           t == IF orphan
                THEN DeleteOrphan(storagesTrie, storage_trie_cursor.pos)
                ELSE storagesTrie
           c == IF orphan
                THEN [pos |-> Cardinality({j \in 1..Len(storagesTrie) :
                                 storagesTrie[j].addr < entry[1]}) + 1,
                      deleted |-> TRUE]
                ELSE storage_trie_cursor
           n == Advance(t, c)
       IN /\ deleted_tries' = IF orphan THEN deleted_tries + 1 ELSE deleted_tries
          /\ storagesTrie' = t
          /\ committed' = OutsideTransaction(committed, t)
          /\ storage_trie_cursor' = [pos |-> n, deleted |-> FALSE]
          /\ entry' = EntryAt(t, n)
    /\ UNCHANGED <<accountsTrie, accountCursor, storageCursor, last, pre,
                   held, fault, hashedAccounts, pc, best_header, state_root,
                   outcome, commits, readerSaw>>
    /\ UNCHANGED <<rootVars, incrVars>>

\* A mutant of RootDiffers: the roots are not compared.
RootNeverDiffers(computed, expected) == FALSE

\* Line 82: state_root != best_header.state_root.
RootDiffers(computed, expected) == computed # expected

\* Lines 81-88: the loop is over; the state root is computed and compared
\* with the header's, and a difference ends the command with both hashes.
RecoverRoot ==
    /\ pc = "loop"
    /\ entry = None
    /\ state_root' = StateRootOf(hashedAccounts, storagesTrie)
    /\ IF RootDiffers(state_root', best_header.state_root)
       THEN /\ outcome' = [kind |-> "IncorrectStateRoot",
                           expected |-> best_header.state_root,
                           received |-> state_root']
            /\ pc' = "done"
       ELSE /\ pc' = "commit"
            /\ UNCHANGED outcome
    /\ UNCHANGED <<cursorVars, committed, hashedAccounts, best_header,
                   storage_trie_cursor, entry, deleted_tries, commits, readerSaw>>
    /\ UNCHANGED <<rootVars, incrVars>>

\* Lines 90-93: the transaction is committed and the command returns Ok.
RecoverCommit ==
    /\ pc = "commit"
    /\ committed' = storagesTrie
    /\ commits' = commits + 1
    /\ outcome' = [kind |-> "Ok"]
    /\ pc' = "done"
    /\ UNCHANGED <<cursorVars, hashedAccounts, best_header, storage_trie_cursor,
                   entry, deleted_tries, state_root, readerSaw>>
    /\ UNCHANGED <<rootVars, incrVars>>

\* A storage-engine error at a `?` of lines 59-90 ends the command; the
\* provider is dropped and its transaction with it.
RecoverDatabaseError ==
    /\ pc \in {"start", "first", "loop", "commit"}
    /\ outcome' = [kind |-> "DatabaseError"]
    /\ pc' = "done"
    /\ UNCHANGED <<cursorVars, committed, hashedAccounts, best_header,
                   storage_trie_cursor, entry, deleted_tries, state_root,
                   commits, readerSaw>>
    /\ UNCHANGED <<rootVars, incrVars>>

\* A reader in another transaction reads StoragesTrie, once, at any time.
ReaderRead ==
    /\ readerSaw.at = "never"
    /\ readerSaw' = [at |-> IF commits > 0 THEN "committed" ELSE pc,
                     table |-> committed,
                     partial |-> /\ storagesTrie # pre
                                 /\ storagesTrie # Swept(pre, hashedAccounts)]
    /\ UNCHANGED <<cursorVars, committed, hashedAccounts, pc, best_header,
                   storage_trie_cursor, entry, deleted_tries, state_root,
                   outcome, commits>>
    /\ UNCHANGED <<rootVars, incrVars>>

RecoverNext ==
    \/ RecoverBestHeader
    \/ RecoverFirst
    \/ RecoverSweep
    \/ RecoverRoot
    \/ RecoverCommit
    \/ RecoverDatabaseError
    \/ ReaderRead

RecoverSpec == InitRecover /\ [][RecoverNext]_vars

\* The loop of lines 72-79 is sequential code: while it has an entry, its
\* next turn is taken.
RecoverFairSpec == RecoverSpec /\ WF_vars(RecoverSweep)

\* --------------------------------------------------------- state_root
\* The threshold from_tx configures.
DefaultThreshold == 100000

\* TriePrefixSets::default(): no prefix is marked as changed.
DefaultPrefixSets ==
    [account_prefix_set |-> {}, storage_prefix_sets |-> [a \in {} |-> {}]]

\* state_root::from_tx: StateRoot::new(..).with_threshold(100_000)
\* .with_prefix_sets(TriePrefixSets::default()); no intermediate state.
from_tx ==
    [threshold |-> DefaultThreshold,
     prefix_sets |-> DefaultPrefixSets,
     previous_state |-> None]

\* StateRoot::with_threshold.
with_threshold(c, n) == [c EXCEPT !.threshold = n]

\* StateRoot::with_intermediate_state.
with_intermediate_state(c, state) == [c EXCEPT !.previous_state = state]

Complete(root, walked) ==
    [kind |-> "Complete", root |-> root, state |-> None, walked |-> walked]

Progress(state, walked) ==
    [kind |-> "Progress", root |-> None, state |-> state, walked |-> walked]

\* The walk over the leaves left: each leaf goes into the hash builder and is
\* counted; a walk that keeps updates stops with a checkpoint once the count
\* reaches the threshold.  The root stands for the leaves hashed, in order.
RECURSIVE Walk(_, _, _, _, _)
Walk(rest, hash_builder, walked, threshold, retain_updates) ==
    IF rest = <<>> THEN Complete(hash_builder, walked)
    ELSE LET hb == Append(hash_builder, Head(rest))
             n == walked + 1
         IN IF retain_updates /\ n >= threshold
            THEN Progress([hash_builder |-> hb, last_account_key |-> Head(rest)], n)
            ELSE Walk(Tail(rest), hb, n, threshold, retain_updates)

\* A mutant of Calculate: a resumed walk starts at the checkpoint's last key
\* instead of behind it.
CalculateFromLastKey(c, leaves, retain_updates) ==
    IF c.previous_state = None
    THEN Walk(leaves, <<>>, 0, c.threshold, retain_updates)
    ELSE Walk(SelectSeq(leaves,
                        LAMBDA k : k >= c.previous_state.last_account_key),
              c.previous_state.hash_builder, 0, c.threshold, retain_updates)

\* StateRoot::calculate: from the beginning, or from the intermediate state
\* (its hash builder, the leaves behind its last account key).
Calculate(c, leaves, retain_updates) ==
    IF c.previous_state = None
    THEN Walk(leaves, <<>>, 0, c.threshold, retain_updates)
    ELSE Walk(SelectSeq(leaves,
                        LAMBDA k : k > c.previous_state.last_account_key),
              c.previous_state.hash_builder, 0, c.threshold, retain_updates)

\* StateRoot::root: the walk to the end, no updates kept.
root(c, leaves) == Calculate(c, leaves, FALSE).root

\* StateRoot::root_with_progress: the walk with updates kept.
root_with_progress(c, leaves) == Calculate(c, leaves, TRUE)

\* u64::MAX, the threshold with_no_threshold sets: no count reaches it.
NoThreshold == 2147483647

\* StateRoot::with_no_threshold.
with_no_threshold(c) == [c EXCEPT !.threshold = NoThreshold]

\* What root_with_updates hands back: the root and the updates of the nodes
\* walked, or the panic of its unreachable!() arm.
RootAndUpdates(r) ==
    IF r.kind = "Complete"
    THEN [kind |-> "Ok", root |-> r.root, updates |-> r.walked]
    ELSE [kind |-> "Unreachable", root |-> None, updates |-> 0]

\* A mutant of root_with_updates: the threshold is left as configured.
root_with_updates_thresholded(c, leaves) ==
    RootAndUpdates(Calculate(c, leaves, TRUE))

\* StateRoot::root_with_updates: with_no_threshold(), then the walk with
\* updates kept.
root_with_updates(c, leaves) ==
    RootAndUpdates(Calculate(with_no_threshold(c), leaves, TRUE))

\* A mutant of incremental_root_calculator: the loaded prefix sets are not
\* handed to the calculator (with_prefix_sets is left out).
incremental_root_calculator_default(loaded_prefix_sets) == from_tx

\* state_root::incremental_root_calculator: from_tx(tx) with the prefix sets
\* loaded for the range.
incremental_root_calculator(loaded_prefix_sets) ==
    [from_tx EXCEPT !.prefix_sets = loaded_prefix_sets]

\* state_root::incremental_root_with_progress:
\* incremental_root_calculator(tx, range)?.root_with_progress().
incremental_root_with_progress(leaves, loaded_prefix_sets) ==
    root_with_progress(incremental_root_calculator(loaded_prefix_sets), leaves)

\* state_root::incremental_root_with_updates:
\* incremental_root_calculator(tx, range)?.root_with_updates().
incremental_root_with_updates(leaves, loaded_prefix_sets) ==
    root_with_updates(incremental_root_calculator(loaded_prefix_sets), leaves)

\* The hashed states of the model: the leaves with keys S, in key order.
RECURSIVE LeavesOf(_)
LeavesOf(S) ==
    IF S = {} THEN <<>>
    ELSE LET m == CHOOSE x \in S : \A y \in S : x >= y
         IN Append(LeavesOf(S \ {m}), m)

RootInit ==
    /\ RecoverIdle
    /\ IncrIdle
    /\ held = Idle
    /\ fault = None
    /\ accountsTrie = <<>>
    /\ storagesTrie = <<>>
    /\ accountCursor = 0
    /\ storageCursor = 0
    /\ last = Idle
    /\ pre = <<>>
    /\ hashedLeaves \in {LeavesOf(S) : S \in SUBSET (1..MaxLeaves)}
    /\ calculator \in {from_tx} \cup
                      {with_threshold(from_tx, n) : n \in 1..MaxThreshold}
    /\ progress = None
    /\ invocations = 0
    /\ plain = None
    /\ with_updates = None

\* The first root_with_progress of the calculator.
RootWithProgress ==
    /\ invocations = 0
    /\ progress' = IF calculator = from_tx
                   THEN incremental_root_with_progress(hashedLeaves,
                                                       DefaultPrefixSets)
                   ELSE root_with_progress(calculator, hashedLeaves)
    /\ invocations' = 1
    /\ UNCHANGED <<hashedLeaves, calculator, plain, with_updates>>
    /\ UNCHANGED <<cursorVars, recoverVars, incrVars>>

\* The caller resumes from the checkpoint returned: the same calculator with
\* the intermediate state, and root_with_progress again.
RootResume ==
    /\ invocations > 0
    /\ progress.kind = "Progress"
    /\ progress' = root_with_progress(
                       with_intermediate_state(calculator, progress.state),
                       hashedLeaves)
    /\ invocations' = invocations + 1
    /\ UNCHANGED <<hashedLeaves, calculator, plain, with_updates>>
    /\ UNCHANGED <<cursorVars, recoverVars, incrVars>>

\* A mutant of ReadOnly: the walk takes the leaves it hashed out of the table.
ConsumedByWalk(table, walked) == SubSeq(table, walked + 1, Len(table))

\* from_tx borrows a DbTx, a transaction whose cursors only read: the table
\* after a computation that walked so many of its entries.
ReadOnly(table, walked) == table

\* The unthresholded computation over the same input: from_tx(tx).root();
\* the caller may run it again.
RootPlain ==
    /\ Len(plain) < 2
    /\ plain' = Append(plain, root(from_tx, hashedLeaves))
    /\ hashedLeaves' = ReadOnly(hashedLeaves, Len(hashedLeaves))
    /\ UNCHANGED <<calculator, progress, invocations, with_updates>>
    /\ UNCHANGED <<cursorVars, recoverVars, incrVars>>

\* root_with_updates of the calculator, once.
RootWithUpdates ==
    /\ with_updates = None
    /\ with_updates' = IF calculator = from_tx
                       THEN incremental_root_with_updates(hashedLeaves,
                                                          DefaultPrefixSets)
                       ELSE root_with_updates(calculator, hashedLeaves)
    /\ UNCHANGED <<hashedLeaves, calculator, progress, invocations, plain>>
    /\ UNCHANGED <<cursorVars, recoverVars, incrVars>>

RootNext ==
    \/ RootWithProgress
    \/ RootResume
    \/ RootPlain
    \/ RootWithUpdates

RootSpec == RootInit /\ [][RootNext]_vars

\* The caller's resume loop and the plain computation both keep running.
RootFairSpec == RootSpec /\ WF_vars(RootNext)

\* ------------------------------------------- incremental state root
\* Number of blocks executed at most.
MaxBlock == 3

\* The hashed storage slots of an account.
Slot == {1, 2}

\* Nibbles::unpack: the nibble path of a hashed key, high nibble first.
Unpack(h) == <<h \div 2, h % 2>>

MaxOf(S) == CHOOSE x \in S : \A y \in S : x >= y

\* The hashed addresses in key order.
AddressSeq == LeavesOf(HashedAddress)

\* What one block's change log may hold: nothing, one account, or one
\* (account, slot) pair.
BlockChanges ==
    {[accounts |-> {}, storages |-> {}]}
    \cup {[accounts |-> {a}, storages |-> {}] : a \in HashedAddress}
    \cup {[accounts |-> {}, storages |-> {<<a, s>>}] :
              a \in HashedAddress, s \in Slot}

\* HashedAccounts and HashedStorages after the blocks of cs: a key holds the
\* number of the block that changed it last (0: as at genesis).
HashedAccountAt(cs, a) ==
    LET S == {n \in 1..Len(cs) : a \in cs[n].accounts}
    IN IF S = {} THEN 0 ELSE MaxOf(S)

HashedStorageAt(cs, a, s) ==
    LET S == {n \in 1..Len(cs) : <<a, s>> \in cs[n].storages}
    IN IF S = {} THEN 0 ELSE MaxOf(S)

DatabaseError == <<"DatabaseError">>

\* StateRootError::Database(e), the From<DatabaseError> conversion.
StateRootError(e) == <<"StateRootError", e>>

Loaded(v) == [kind |-> "Ok", value |-> v, error |-> None]
Failed(e) == [kind |-> "Err", value |-> None, error |-> e]

\* A mutant of PrefixSetLoader_load: the last block of the range is left out.
PrefixSetLoader_load_exclusive(cs, range) ==
    LET blocks == {n \in 1..Len(cs) : range[1] <= n /\ n < range[2]}
        accounts == UNION {cs[n].accounts : n \in blocks}
        storages == UNION {cs[n].storages : n \in blocks}
        touched == {q[1] : q \in storages}
    IN [account_prefix_set |-> {Unpack(a) : a \in accounts},
        storage_prefix_sets |->
            [a \in touched |->
                {Unpack(q[2]) : q \in {r \in storages : r[1] = a}}]]

\* PrefixSetLoader::load(range): the path of every account changed in a block
\* of the range, and for every (account, slot) changed the slot's path in
\* that account's set, made on first touch.
PrefixSetLoader_load(cs, range) ==
    LET blocks == {n \in 1..Len(cs) : range[1] <= n /\ n <= range[2]}
        accounts == UNION {cs[n].accounts : n \in blocks}
        storages == UNION {cs[n].storages : n \in blocks}
        touched == {q[1] : q \in storages}
    IN [account_prefix_set |-> {Unpack(a) : a \in accounts},
        storage_prefix_sets |->
            [a \in touched |->
                {Unpack(q[2]) : q \in {r \in storages : r[1] = a}}]]

\* The Err arm of a cursor wrapper (`self.0.seek(..)?`, or the engine's
\* result returned as it is): the engine's error, handed on.
Propagate(engine_error) == <<"Err", engine_error>>

\* A mutant of Try: an error becomes the default value (unwrap_or_default).
TryOrDefault(r) ==
    IF r.kind = "Err" THEN Loaded(DefaultPrefixSets) ELSE r

\* The `?` of incremental_root_calculator: the value of an Ok, or the error,
\* converted, as the function's own result.
Try(r) == IF r.kind = "Err" THEN Failed(StateRootError(r.error)) ELSE r

\* The merge walk of the calculator: per account in key order, the leaf that
\* goes into the hash builder.  A part whose path is in a prefix set is taken
\* from the hashed state; any other part is the node stored in the trie
\* tables, reused.
MergeWalk(prefix_sets, accounts_trie, storages_trie, cs) ==
    [i \in 1..Len(AddressSeq) |->
        LET a == AddressSeq[i]
            slots == IF a \in DOMAIN prefix_sets.storage_prefix_sets
                     THEN prefix_sets.storage_prefix_sets[a] ELSE {}
            stored == Account_seek_exact(accounts_trie, Unpack(a)).res
        IN [key |-> Unpack(a),
            account |->
                IF Unpack(a) \in prefix_sets.account_prefix_set
                   \/ stored = None
                THEN HashedAccountAt(cs, a) ELSE stored[2],
            storage_root |->
                [s \in Slot |->
                    LET node == Storage_seek_exact(storages_trie, a,
                                                   Unpack(s)).res
                    IN IF Unpack(s) \in slots \/ node = None
                       THEN HashedStorageAt(cs, a, s) ELSE node[2]]]]

\* The trie tables of the genesis state.
GenesisAccountsTrie ==
    [i \in 1..Len(AddressSeq) |-> [key |-> Unpack(AddressSeq[i]), node |-> 0]]

GenesisStoragesTrie ==
    TableOf({[addr |-> a, nibbles |-> Unpack(s), node |-> 0] :
                a \in HashedAddress, s \in Slot})

\* The caller persists the updates through the write cursors: an account
\* node is upserted; a storage node stored under the same sub-key is deleted
\* before the new one is upserted.
RECURSIVE WriteAccountNodes(_, _)
WriteAccountNodes(t, leaves) ==
    IF leaves = <<>> THEN t
    ELSE WriteAccountNodes(
             Account_upsert(t, Head(leaves).key, Head(leaves).account),
             Tail(leaves))

WriteStorageNode(t, addr, nibbles, node) ==
    LET r == Storage_seek_exact(t, addr, nibbles)
        d == IF r.res # None THEN Storage_delete_current(t, r.pos) ELSE t
    IN Storages_upsert(d, addr, [nibbles |-> nibbles, node |-> node])

RECURSIVE WriteStorageRoot(_, _, _, _)
WriteStorageRoot(t, addr, storage_root, slots) ==
    IF slots = {} THEN t
    ELSE LET s == CHOOSE x \in slots : TRUE
         IN WriteStorageRoot(
                WriteStorageNode(t, addr, Unpack(s), storage_root[s]),
                addr, storage_root, slots \ {s})

RECURSIVE WriteStorageNodes(_, _)
WriteStorageNodes(t, leaves) ==
    IF leaves = <<>> THEN t
    ELSE WriteStorageNodes(
             WriteStorageRoot(t, AddressSeq[Len(AddressSeq) - Len(leaves) + 1],
                              Head(leaves).storage_root, Slot),
             Tail(leaves))

InitIncr ==
    /\ RecoverIdle
    /\ RootIdle
    /\ accountsTrie = GenesisAccountsTrie
    /\ storagesTrie = GenesisStoragesTrie
    /\ accountCursor = 0
    /\ storageCursor = 0
    /\ last = Idle
    /\ pre = <<>>
    /\ held = Idle
    /\ fault = None
    /\ changeSets = <<>>
    /\ checkpoint = 0
    /\ incremental = None

\* A block is executed: its changes go to the change log and the hashed state.
ExecuteBlock ==
    /\ incremental = None
    /\ last = Idle
    /\ Len(changeSets) < MaxBlock
    /\ \E changes \in BlockChanges : changeSets' = Append(changeSets, changes)
    /\ UNCHANGED <<checkpoint, incremental>>
    /\ UNCHANGED <<cursorVars, recoverVars, rootVars>>

\* What an incremental entry point returned for the range.
IncrementalResult(range, failing, prefix_sets, root_result, retained) ==
    [kind |-> root_result.kind, range |-> range, failing |-> failing,
     prefix_sets |-> prefix_sets,
     root |-> root_result.root, updates |-> root_result.updates,
     error |-> root_result.error, retained |-> retained,
     committed |-> FALSE]

RootFailed(e) ==
    [kind |-> "Err", root |-> None, updates |-> None, error |-> e]

\* state_root::incremental_root: incremental_root_calculator(tx, range)?
\* .root(); the storage engine may fail in the loader or during the walk.
IncrementalRoot ==
    \E a \in 1..Len(changeSets), b \in 1..Len(changeSets),
       failing \in {"none", "load", "walk"} :
        LET range == <<a, b>>
            loaded == Try(IF failing = "load" THEN Failed(DatabaseError)
                          ELSE Loaded(PrefixSetLoader_load(changeSets, range)))
            c == incremental_root_calculator(loaded.value)
        IN /\ incremental = None
           /\ last = Idle
           /\ a <= b
           /\ incremental' =
                  IncrementalResult(range, failing,
                      IF loaded.kind = "Err" THEN None ELSE c.prefix_sets,
                      IF loaded.kind = "Err" THEN RootFailed(loaded.error)
                      ELSE IF failing = "walk"
                      THEN RootFailed(StateRootError(DatabaseError))
                      ELSE [kind |-> "Ok",
                            root |-> root(c, MergeWalk(c.prefix_sets,
                                         accountsTrie, storagesTrie, changeSets)),
                            updates |-> None, error |-> None],
                      FALSE)
           /\ IF loaded.kind = "Ok" /\ failing = "walk"
              THEN /\ fault' = DatabaseError
                   /\ last' = Call("account.seek", 0, <<>>, 0,
                                   Propagate(DatabaseError))
                   /\ pre' = accountsTrie
              ELSE UNCHANGED <<fault, last, pre>>
           /\ UNCHANGED <<accountsTrie, storagesTrie, accountCursor,
                          storageCursor, held>>
           /\ UNCHANGED <<changeSets, checkpoint>>
           /\ UNCHANGED <<recoverVars, rootVars>>

\* state_root::incremental_root_with_updates:
\* incremental_root_calculator(tx, range)?.root_with_updates().  The updates
\* are the nodes of the trie the root stands for.
IncrementalRootWithUpdates ==
    \E a \in 1..Len(changeSets), b \in 1..Len(changeSets),
       failing \in {"none", "load", "walk"} :
        LET range == <<a, b>>
            loaded == Try(IF failing = "load" THEN Failed(DatabaseError)
                          ELSE Loaded(PrefixSetLoader_load(changeSets, range)))
            c == incremental_root_calculator(loaded.value)
            r == root_with_updates(c, MergeWalk(c.prefix_sets, accountsTrie,
                                                storagesTrie, changeSets))
        IN /\ incremental = None
           /\ last = Idle
           /\ a <= b
           /\ incremental' =
                  IncrementalResult(range, failing,
                      IF loaded.kind = "Err" THEN None ELSE c.prefix_sets,
                      IF loaded.kind = "Err" THEN RootFailed(loaded.error)
                      ELSE IF failing = "walk"
                      THEN RootFailed(StateRootError(DatabaseError))
                      ELSE [kind |-> "Ok", root |-> r.root,
                            updates |-> r.root, error |-> None],
                      TRUE)
           /\ IF loaded.kind = "Ok" /\ failing = "walk"
              THEN /\ fault' = DatabaseError
                   /\ last' = Call("account.seek", 0, <<>>, 0,
                                   Propagate(DatabaseError))
                   /\ pre' = accountsTrie
              ELSE UNCHANGED <<fault, last, pre>>
           /\ UNCHANGED <<accountsTrie, storagesTrie, accountCursor,
                          storageCursor, held>>
           /\ UNCHANGED <<changeSets, checkpoint>>
           /\ UNCHANGED <<recoverVars, rootVars>>

\* The caller persists the updates of a computation over the blocks from the
\* checkpoint to the tip and moves the checkpoint.
CommitUpdates ==
    /\ incremental # None
    /\ incremental.kind = "Ok"
    /\ incremental.retained
    /\ ~incremental.committed
    /\ incremental.range = <<checkpoint + 1, Len(changeSets)>>
    /\ accountsTrie' = WriteAccountNodes(accountsTrie, incremental.updates)
    /\ storagesTrie' = WriteStorageNodes(storagesTrie, incremental.updates)
    /\ checkpoint' = Len(changeSets)
    /\ incremental' = [incremental EXCEPT !.committed = TRUE]
    /\ UNCHANGED <<accountCursor, storageCursor, last, pre, held, fault>>
    /\ UNCHANGED changeSets
    /\ UNCHANGED <<recoverVars, rootVars>>

\* The caller takes the result of the computation, or drops it.
TakeResult ==
    /\ incremental # None
    /\ incremental' = None
    /\ UNCHANGED <<changeSets, checkpoint>>
    /\ UNCHANGED <<cursorVars, recoverVars, rootVars>>

IncrNext ==
    \/ ExecuteBlock
    \/ IncrementalRoot
    \/ IncrementalRootWithUpdates
    \/ CommitUpdates
    \/ TakeResult
    \/ Return

\* The cursor calls that reach the storage engine (the account cursor's
\* delete_current_duplicates panics before it does).
FallibleOps ==
    {"account.seek_exact", "account.seek", "account.current",
     "account.delete_current", "account.upsert",
     "storage.seek_exact", "storage.seek", "storage.current",
     "storage.delete_current", "storage.delete_current_duplicates",
     "storages.seek_exact", "storages.seek_by_key_subkey", "storages.current",
     "storages.delete_current", "storages.delete_current_duplicates",
     "storages.upsert"}

\* The storage engine fails in a cursor call: the wrapper returns the error
\* and the tables stay as they were.
CursorFails ==
    \E op \in FallibleOps :
        /\ last = Idle
        /\ incremental = None
        /\ fault' = DatabaseError
        /\ last' = Call(op, 0, <<>>, 0, Propagate(DatabaseError))
        /\ pre' = <<>>
        /\ held = Idle
        /\ UNCHANGED <<accountsTrie, storagesTrie, accountCursor, storageCursor,
                       held>>
        /\ UNCHANGED <<recoverVars, rootVars, incrVars>>

FaultNext ==
    \/ ExecuteBlock
    \/ IncrementalRoot
    \/ IncrementalRootWithUpdates
    \/ CommitUpdates
    \/ TakeResult
    \/ CursorFails
    \/ Return

FaultSpec == InitIncr /\ [][FaultNext]_vars

IncrSpec == InitIncr /\ [][IncrNext]_vars

\* ------------------------------------------------------------ properties
\* The nibble-lexicographic order as the claims state it: nibble by nibble
\* from the front, a proper prefix first.
RECURSIVE PathBefore(_, _)
PathBefore(a, b) ==
    IF b = <<>> THEN FALSE
    ELSE IF a = <<>> THEN TRUE
    ELSE IF a[1] # b[1] THEN a[1] < b[1]
    ELSE PathBefore(Tail(a), Tail(b))

\* C1: seek_exact(k) on a storage trie cursor bound to X returns a node stored
\* at exactly (X, k) when there is one, and none otherwise - also when a
\* larger sub-key is stored under X.
C1_StorageSeekExact ==
    last.op = "storage.seek_exact" =>
        LET stored == {i \in 1..Len(pre) :
                          pre[i].addr = last.addr /\ pre[i].nibbles = last.key}
        IN IF stored = {} THEN last.res = None
           ELSE \E i \in stored : last.res = Some(last.key, pre[i].node)

\* C1 witness: k is absent, a larger sub-key is stored under X, none returned.
C1_Witness ==
    /\ last.op = "storage.seek_exact"
    /\ last.res = None
    /\ \E i \in 1..Len(pre) :
           pre[i].addr = last.addr /\ PathBefore(last.key, pre[i].nibbles)
    /\ \A i \in 1..Len(pre) :
           pre[i].addr = last.addr => pre[i].nibbles # last.key

\* C2: seek(k) on the account trie cursor returns the stored entry with the
\* smallest key >= k, and none exactly when no stored key is >= k.
C2_AccountSeek ==
    last.op = "account.seek" =>
        LET ge == {i \in 1..Len(pre) : ~PathBefore(pre[i].key, last.key)}
        IN IF ge = {} THEN last.res = None
           ELSE \E i \in ge :
                   /\ last.res = Some(pre[i].key, pre[i].node)
                   /\ \A j \in ge : ~PathBefore(pre[j].key, pre[i].key)

\* C2 witness: k is not stored, smaller and larger keys are, and the entry
\* returned is a larger one.
C2_Witness ==
    /\ last.op = "account.seek"
    /\ last.res # None
    /\ PathBefore(last.key, last.res[1])
    /\ \E i \in 1..Len(pre) : PathBefore(pre[i].key, last.key)
    /\ \E i \in 1..Len(pre) : PathBefore(last.res[1], pre[i].key)

KeysOf(t) == {t[i].key : i \in 1..Len(t)}

\* C3: after any upserts, in any order, the walk from the beginning yields
\* every stored key once, in strictly increasing nibble order (a proper
\* prefix before its extensions).
C3_WalkOrder ==
    LET w == WalkRange(accountsTrie) IN
    /\ \A i \in 1..Len(w) : \A j \in 1..Len(w) : i < j => PathBefore(w[i], w[j])
    /\ last.op = "account.upsert" =>
           {w[i] : i \in 1..Len(w)} = KeysOf(pre) \cup {last.key}

\* C3 witness: a key was upserted after one of its extensions and after a
\* key that sorts behind both; the walk has it first.
C3_Witness ==
    LET w == WalkRange(accountsTrie) IN
    /\ last.op = "account.upsert"
    /\ Len(w) = 3 /\ Len(pre) = 2
    /\ w[1] = last.key
    /\ Len(w[2]) > Len(w[1])
    /\ SubSeq(w[2], 1, Len(w[1])) = w[1]
    /\ Len(w[1]) > 0

\* C4: a seek by (X, k) on the storage trie returns the entry of X with the
\* smallest sub-key >= k, and none when X has no such sub-key, whatever the
\* other accounts hold.
C4_StorageSeekWithinAccount ==
    last.op \in {"storage.seek", "storages.seek_by_key_subkey"} =>
        LET ge == {i \in 1..Len(pre) :
                      /\ pre[i].addr = last.addr
                      /\ ~PathBefore(pre[i].nibbles, last.key)}
        IN IF ge = {} THEN last.res = None
           ELSE \E i \in ge :
                   /\ last.res = Some(pre[i].nibbles, pre[i].node)
                   /\ \A j \in ge : ~PathBefore(pre[j].nibbles, pre[i].nibbles)

\* C4 witness: X holds entries but no sub-key >= k, an account with a larger
\* address holds one, and the bound cursor's seek returned none.
C4_Witness ==
    /\ last.op = "storage.seek"
    /\ last.res = None
    /\ \E i \in 1..Len(pre) : pre[i].addr = last.addr
    /\ \E i \in 1..Len(pre) :
           pre[i].addr > last.addr /\ ~PathBefore(pre[i].nibbles, last.key)

DeleteDuplicatesOps ==
    {"storage.delete_current_duplicates", "storages.delete_current_duplicates"}

\* C5: delete_current_duplicates on a storage trie write cursor standing on an
\* entry of X removes every entry of X and leaves every other account's
\* entries as they were.
C5_DeleteDuplicatesScope ==
    (last.op \in DeleteDuplicatesOps /\ last.res = Ok) =>
        /\ \A i \in 1..Len(storagesTrie) : storagesTrie[i].addr # last.addr
        /\ \A a \in HashedAddress \ {last.addr} :
               SelectSeq(storagesTrie, LAMBDA e : e.addr = a)
                   = SelectSeq(pre, LAMBDA e : e.addr = a)

\* C5 witness: X held two entries, another account one, before the call.
C5_Witness ==
    /\ last.op = "storages.delete_current_duplicates"
    /\ last.res = Ok
    /\ Cardinality({i \in 1..Len(pre) : pre[i].addr = last.addr}) >= 2
    /\ Len(storagesTrie) >= 1

\* C9: delete_current_duplicates on the account trie cursor never returns, it
\* panics, and AccountsTrie is as it was.
C9_AccountDeleteDuplicatesPanics ==
    last.op = "account.delete_current_duplicates" =>
        last.res = Panic /\ accountsTrie = pre

\* C9 witness: the call was made with the cursor standing on an entry.
C9_Witness ==
    /\ last.op = "account.delete_current_duplicates"
    /\ accountCursor # 0
    /\ Len(pre) >= 2

\* The sweep's loop has run to its end.
SweepFinished == (pc = "loop" /\ entry = None) \/ state_root # None

\* C6: after the sweep, every group whose hashed address has no entry in
\* HashedAccounts is gone and every other group holds what it held before.
C6_SweepDeletesOrphansOnly ==
    SweepFinished =>
        \A a \in RecoverAddress :
            IF a \in hashedAccounts
            THEN SelectSeq(storagesTrie, LAMBDA e : e.addr = a)
                     = SelectSeq(pre, LAMBDA e : e.addr = a)
            ELSE \A i \in 1..Len(storagesTrie) : storagesTrie[i].addr # a

\* C6 witness: two orphan groups next to each other ahead of a kept group.
C6_Witness ==
    /\ SweepFinished
    /\ hashedAccounts = {3}
    /\ {pre[i].addr : i \in 1..Len(pre)} = {1, 2, 3}
    /\ Len(storagesTrie) = 1

\* C7: the transaction is committed only when the recomputed root equals the
\* header's; when they differ the command ends with an error holding both
\* hashes, nothing was committed and the committed table is as before.
C7_CommitOnlyOnMatchingRoot ==
    /\ commits > 0 => state_root = best_header.state_root
    /\ (state_root # None /\ state_root # best_header.state_root) =>
           /\ outcome = [kind |-> "IncorrectStateRoot",
                         expected |-> best_header.state_root,
                         received |-> state_root]
           /\ pc = "done"
           /\ commits = 0
           /\ committed = pre

\* C7 witness: the sweep deleted a group, the roots differ, the command ended.
C7_Witness ==
    /\ pc = "done"
    /\ state_root # None
    /\ state_root # best_header.state_root
    /\ storagesTrie # pre
    /\ committed = pre

\* C8: a reader in another transaction sees the table as it was before the
\* sweep until the commit (for ever when the command fails), and the fully
\* swept table after it; never a partly swept one.
C8_ReaderSeesNoPartialSweep ==
    /\ readerSaw.at # "never" =>
           readerSaw.table = IF readerSaw.at = "committed"
                             THEN Swept(pre, hashedAccounts) ELSE pre
    /\ commits = 0 => committed = pre
    /\ commits > 0 => committed = Swept(pre, hashedAccounts)

\* C8 witness: the reader read while the sweep had deleted one orphan group
\* and not yet another.
C8_Witness ==
    /\ readerSaw.at = "loop"
    /\ readerSaw.partial
    /\ readerSaw.table = pre

\* C10: with a threshold below the trie size the first root_with_progress
\* returns a checkpoint, not a root; resuming from each checkpoint ends, and
\* the root it ends with is the root of the unthresholded computation.
C10_Safety ==
    /\ (invocations = 1 /\ calculator.threshold < Len(hashedLeaves)) =>
           progress.kind = "Progress"
    /\ (invocations > 0 /\ progress.kind = "Complete" /\ plain # None) =>
           progress.root = plain[1]

C10_Done == invocations > 0 /\ progress.kind = "Complete" /\ plain # None

C10_ThresholdedRoot == []C10_Safety /\ <>C10_Done

\* C10 witness: the threshold was below the trie size, the walk was resumed
\* from two checkpoints at least, and has ended.
C10_Witness ==
    /\ C10_Done
    /\ calculator.threshold < Len(hashedLeaves)
    /\ invocations >= 3

\* C11: root_with_updates ignores the threshold: for every trie size, also one
\* above the calculator's threshold, it returns the final root with the
\* updates of the whole walk, never a checkpoint.
C11_WithUpdatesIgnoresThreshold ==
    with_updates # None =>
        /\ with_updates.kind = "Ok"
        /\ with_updates.root = hashedLeaves
        /\ with_updates.updates = Len(hashedLeaves)

\* C11 witness: the trie is larger than the calculator's threshold.
C11_Witness ==
    /\ with_updates # None
    /\ with_updates.kind = "Ok"
    /\ calculator.threshold < Len(hashedLeaves)

\* The root of the hashed state after the blocks of cs, computed from the
\* leaves alone.
FromScratch(cs) ==
    [i \in 1..Len(AddressSeq) |->
        [key |-> Unpack(AddressSeq[i]),
         account |-> HashedAccountAt(cs, AddressSeq[i]),
         storage_root |->
             [s \in Slot |-> HashedStorageAt(cs, AddressSeq[i], s)]]]

\* C12: the incremental root over the blocks from the checkpoint to the tip is
\* the root computed from scratch over the final hashed state, and so is the
\* root over the trie tables once the updates are committed.
C12_IncrementalEqualsFromScratch ==
    /\ (/\ incremental # None
        /\ incremental.kind = "Ok"
        /\ ~incremental.committed
        /\ incremental.range = <<checkpoint + 1, Len(changeSets)>>) =>
           incremental.root = FromScratch(changeSets)
    /\ (incremental # None /\ incremental.committed
          /\ checkpoint = Len(changeSets)) =>
           /\ incremental.root = FromScratch(changeSets)
           /\ root(from_tx, MergeWalk(from_tx.prefix_sets, accountsTrie,
                                      storagesTrie, changeSets))
                  = FromScratch(changeSets)

\* C12 witness: a second range was committed; it changed a storage slot, and
\* an account changed before the range kept its stored node.
C12_Witness ==
    /\ incremental # None
    /\ incremental.committed
    /\ checkpoint = Len(changeSets)
    /\ incremental.range[1] > 1
    /\ \E a \in HashedAddress :
           /\ HashedAccountAt(changeSets, a) \in 1..(incremental.range[1] - 1)
           /\ \E s \in Slot :
                  HashedStorageAt(changeSets, a, s) >= incremental.range[1]

C15_UpsertThenSeek ==
    last.op = "storages.upsert" =>
        Storage_seek(storagesTrie, last.addr, last.key).res
            = Some(last.key, last.node)

StorageSeekOps ==
    {"storage.seek_exact", "storage.seek", "storages.seek_exact",
     "storages.seek_by_key_subkey"}

\* C16: after a seek or seek_exact that returned an entry, current() returns
\* the logical key of that entry: AccountNode(path) on the account trie
\* cursor, StorageNode(X, sub-key) on a storage trie cursor, X being the
\* address the cursor is bound to or was asked for.
C16_CurrentAfterSeek ==
    /\ (/\ last.op = "account.current"
        /\ held.op \in {"account.seek_exact", "account.seek"}
        /\ held.res # None) =>
           last.res = <<"AccountNode", held.res[1]>>
    /\ (/\ last.op \in {"storage.current", "storages.current"}
        /\ held.op \in StorageSeekOps
        /\ held.res # None) =>
           last.res = <<"StorageNode", held.addr, held.res[1]>>

\* C16 witness: a seek on a cursor bound to X landed on a sub-key larger than
\* the one asked for, while a smaller address holds entries, and current()
\* was called.
C16_Witness ==
    /\ last.op = "storage.current"
    /\ held.op = "storage.seek"
    /\ held.res # None
    /\ held.res[1] # held.key
    /\ \E i \in 1..Len(storagesTrie) : storagesTrie[i].addr < held.addr
    /\ last.res = <<"StorageNode", held.addr, held.res[1]>>

\* C17: the prefix sets the calculator of a block range [a, b] is given hold
\* the path of an account exactly when the account changed in a block n with
\* a <= n <= b, and the path of a slot in an account's set exactly when that
\* (account, slot) pair changed in such a block; blocks a and b count, keys
\* changed only outside the range are absent.
C17_PrefixSetsCoverRange ==
    (incremental # None /\ incremental.prefix_sets # None) =>
        LET ps == incremental.prefix_sets
            blocks == incremental.range[1]..incremental.range[2]
        IN /\ \A h \in HashedAddress :
                  Unpack(h) \in ps.account_prefix_set <=>
                      \E n \in blocks : h \in changeSets[n].accounts
           /\ \A h \in HashedAddress, s \in Slot :
                  (/\ h \in DOMAIN ps.storage_prefix_sets
                   /\ Unpack(s) \in ps.storage_prefix_sets[h]) <=>
                      \E n \in blocks : <<h, s>> \in changeSets[n].storages

\* C17 witness: the sets loaded for blocks 2 to 3 of three hold the slot
\* changed in block 2 and the account changed in block 3, and not the account
\* changed in block 1 only.
C17_Witness ==
    /\ incremental # None
    /\ incremental.prefix_sets # None
    /\ incremental.range = <<2, 3>>
    /\ \E q \in changeSets[2].storages :
           /\ q[1] \in DOMAIN incremental.prefix_sets.storage_prefix_sets
           /\ Unpack(q[2]) \in incremental.prefix_sets.storage_prefix_sets[q[1]]
    /\ \E h \in changeSets[3].accounts :
           Unpack(h) \in incremental.prefix_sets.account_prefix_set
    /\ \E h \in changeSets[1].accounts :
           Unpack(h) \notin incremental.prefix_sets.account_prefix_set

\* C18: after any sequence of upserts and deletes each trie table holds at
\* most one node per logical key: one per nibble path in AccountsTrie, one per
\* (hashed address, nibble sub-key) in StoragesTrie.
C18_OneNodePerKey ==
    /\ \A i \in 1..Len(accountsTrie), j \in 1..Len(accountsTrie) :
           accountsTrie[i].key = accountsTrie[j].key => i = j
    /\ \A i \in 1..Len(storagesTrie), j \in 1..Len(storagesTrie) :
           (/\ storagesTrie[i].addr = storagesTrie[j].addr
            /\ storagesTrie[i].nibbles = storagesTrie[j].nibbles) => i = j

\* The entries of the table from the cursor's place to the end.
Remaining(t, c) == IF c.pos = 0 THEN 0 ELSE Len(t) - c.pos + 1

\* C19: the sweep loop terminates on every finite StoragesTrie table.  A turn
\* of the loop either deletes the whole group of the current entry or leaves
\* the table as it is, and then moves the cursor on, so that fewer entries
\* are left ahead of it; and once in the loop, the cursor reaches the end of
\* the table (or the command has ended on an error), deletions or not.
C19_SweepTerminates ==
    /\ [][(/\ pc = "loop" /\ pc' = "loop"
           /\ entry # None
           /\ <<storagesTrie, storage_trie_cursor, entry, deleted_tries>>'
                  # <<storagesTrie, storage_trie_cursor, entry, deleted_tries>>)
          => /\ \/ storagesTrie' = storagesTrie
                \/ storagesTrie' =
                       SelectSeq(storagesTrie, LAMBDA e : e.addr # entry[1])
             /\ Remaining(storagesTrie', storage_trie_cursor')
                    < Remaining(storagesTrie, storage_trie_cursor)
             /\ entry' = EntryAt(storagesTrie', storage_trie_cursor'.pos)]_vars
    /\ (pc = "loop") ~> ((pc = "loop" /\ entry = None) \/ pc = "done")

\* C19 witness: the loop is over after it deleted a group that had entries
\* of a later address behind it and kept those.
C19_Witness ==
    /\ pc = "loop"
    /\ entry = None
    /\ deleted_tries > 0
    /\ storagesTrie # <<>>
    /\ storagesTrie = Swept(pre, hashedAccounts)
    /\ \E i \in 1..Len(pre), j \in 1..Len(pre) :
           /\ pre[i].addr \notin hashedAccounts
           /\ pre[j].addr \in hashedAccounts
           /\ pre[i].addr < pre[j].addr

\* The sub-keys stored under address x that are larger than k.
LargerSubKeys(t, x, k) ==
    {t[i].nibbles : i \in {j \in 1..Len(t) : /\ t[j].addr = x
                                             /\ LexLess(k, t[j].nibbles)}}

\* C20: seek_exact(k) on a cursor bound to X returned none, k being absent
\* while a larger sub-key is stored under X; the cursor stands on the smallest
\* such sub-key B, and a following current() returns StorageNode(X, B).
C20_CurrentAfterMissedSeekExact ==
    (/\ last.op = "storage.current"
     /\ held.op = "storage.seek_exact"
     /\ held.res = None
     /\ \A i \in 1..Len(storagesTrie) :
            ~(storagesTrie[i].addr = held.addr
              /\ storagesTrie[i].nibbles = held.key)
     /\ LargerSubKeys(storagesTrie, held.addr, held.key) # {}) =>
        \E B \in LargerSubKeys(storagesTrie, held.addr, held.key) :
            /\ \A k \in LargerSubKeys(storagesTrie, held.addr, held.key) :
                   k = B \/ LexLess(B, k)
            /\ last.res = <<"StorageNode", held.addr, B>>

\* C20 witness: seek_exact(k) returned none with two larger sub-keys stored
\* under X, and current() returned a key the seek did not return.
C20_Witness ==
    /\ last.op = "storage.current"
    /\ held.op = "storage.seek_exact"
    /\ held.res = None
    /\ Cardinality(LargerSubKeys(storagesTrie, held.addr, held.key)) = 2
    /\ last.res # None
    /\ last.res[3] # held.key

\* The entries of table t stored under hashed address x.
GroupOf(t, x) == {t[i] : i \in {j \in 1..Len(t) : t[j].addr = x}}

\* C21: seek_exact(X) on the whole-table storage cursor takes the outer key
\* only.  When X has entries it returns one of them, of the smallest sub-key
\* in X's group; when X has none it returns none, whatever other accounts
\* hold.
C21_StoragesSeekExact ==
    last.op = "storages.seek_exact" =>
        IF GroupOf(pre, last.addr) = {}
        THEN last.res = None
        ELSE /\ last.res # None
             /\ \E e \in GroupOf(pre, last.addr) :
                    /\ last.res = Some(e.nibbles, e.node)
                    /\ \A d \in GroupOf(pre, last.addr) :
                           ~LexLess(d.nibbles, e.nibbles)

\* C21 witness: seek_exact(X) returned the entry of the smaller of two
\* sub-keys of X while a smaller address holds an entry too.
C21_Witness ==
    /\ last.op = "storages.seek_exact"
    /\ last.res # None
    /\ \E d \in GroupOf(pre, last.addr) : LexLess(last.res[1], d.nibbles)
    /\ \E i \in 1..Len(pre) : pre[i].addr < last.addr

Orphans(t, accounts) ==
    {t[i].addr : i \in {j \in 1..Len(t) : t[j].addr \notin accounts}}

\* C23: when the sweep is over, deleted_tries is the number of distinct hashed
\* addresses that had entries in StoragesTrie and none in HashedAccounts
\* before it: an orphan group counts once however many entries it has, any
\* other group never.
C23_DeletedTriesCountsOrphans ==
    SweepFinished =>
        deleted_tries = Cardinality(Orphans(pre, hashedAccounts))

\* C23 witness: the sweep is over; it met an orphan group of two entries and
\* a group that is no orphan, and counted one.
C23_Witness ==
    /\ SweepFinished
    /\ deleted_tries = 1
    /\ \E i \in 1..Len(pre), j \in 1..Len(pre) :
           /\ i # j
           /\ pre[i].addr = pre[j].addr
           /\ pre[i].addr \notin hashedAccounts
    /\ \E i \in 1..Len(pre) : pre[i].addr \in hashedAccounts

\* C24: when the header of the best block is not found the command has
\* returned the header-not-found error before the sweep: the cursor was never
\* opened, no entry of StoragesTrie is deleted, no state root is computed and
\* nothing is committed.
C24_HeaderNotFoundBeforeSweep ==
    (outcome # None /\ outcome.kind = "HeaderNotFound") =>
        /\ pc = "done"
        /\ storage_trie_cursor = [pos |-> 0, deleted |-> FALSE]
        /\ entry = None
        /\ deleted_tries = 0
        /\ storagesTrie = pre
        /\ state_root = None
        /\ commits = 0
        /\ committed = pre

\* C24 witness: the header was not found for a database whose StoragesTrie
\* holds an orphan group, and another transaction read the table afterwards.
C24_Witness ==
    /\ outcome # None
    /\ outcome.kind = "HeaderNotFound"
    /\ Orphans(storagesTrie, hashedAccounts) # {}
    /\ readerSaw.at = "done"
    /\ readerSaw.table = pre

====
